---- MODULE Spec2Model ----
(***************************************************************************)
(* Model of src/src/ModubusRtu.ts: the Modbus RTU codec for function 0x03  *)
(* (read holding registers).  A Buffer is a sequence of bytes; the byte at *)
(* Node offset i is element i + 1 of the sequence.  A call's outcome is a  *)
(* record [kind, payload, message]: kind is "frame" or "values" for a      *)
(* normal return, and the name of the error for a throw.  "RangeError" is  *)
(* what Node's Buffer read and write methods throw for an offset outside   *)
(* the buffer or a value outside the field's range.                        *)
(***************************************************************************)
EXTENDS Integers, Sequences, FiniteSets, TLC

VARIABLES unitAddress, sent, response, op, firstRegister, lastRegister, result

vars == <<unitAddress, sent, response, op, firstRegister, lastRegister, result>>

(***************************************************************************)
(* Bounds of the model.                                                    *)
(***************************************************************************)
\* Largest number of bytes that follow the three header bytes of a response body.
MaxData == 4
\* Largest number of bytes in the bodies of the frames that get corrupted.
MaxCorruptBody == 3
\* Largest length of the generic byte sequences given to crc16.
MaxCrcLen == 2

(***************************************************************************)
(* JavaScript's integer operators on non-negative integers.                *)
(***************************************************************************)
RECURSIVE BitXor(_, _)
BitXor(a, b) ==
    IF a = 0 THEN b
    ELSE IF b = 0 THEN a
    ELSE (((a % 2) + (b % 2)) % 2) + 2 * BitXor(a \div 2, b \div 2)

RECURSIVE BitAnd(_, _)
BitAnd(a, b) ==
    IF a = 0 \/ b = 0 THEN 0
    ELSE ((a % 2) * (b % 2)) + 2 * BitAnd(a \div 2, b \div 2)

RECURSIVE BitOr(_, _)
BitOr(a, b) ==
    IF a = 0 THEN b
    ELSE IF b = 0 THEN a
    ELSE (IF a % 2 = 1 \/ b % 2 = 1 THEN 1 ELSE 0) + 2 * BitOr(a \div 2, b \div 2)

ShiftRight1(a) == a \div 2

(***************************************************************************)
(* Outcomes.                                                               *)
(***************************************************************************)
Outcome(k, p, m) == [kind |-> k, payload |-> p, message |-> m]

NoResult == Outcome("none", <<>>, "")

RangeError == Outcome("RangeError", <<>>, "")

(***************************************************************************)
(* Node's Buffer accessors.  Each read is defined only inside the buffer;  *)
(* InRange8 and InRange16 are the bounds checks whose failure throws.      *)
(***************************************************************************)
InRange8(buffer, offset) == offset >= 0 /\ offset < Len(buffer)

InRange16(buffer, offset) == offset >= 0 /\ offset + 1 < Len(buffer)

readUInt8(buffer, offset) == buffer[offset + 1]

\* Mutant of readUInt16BE: the two bytes are read low byte first.
readUInt16Swapped(buffer, offset) == buffer[offset + 1] + buffer[offset + 2] * 256

readUInt16BE(buffer, offset) == buffer[offset + 1] * 256 + buffer[offset + 2]

readUInt16LE(buffer, offset) == buffer[offset + 1] + buffer[offset + 2] * 256

\* buffer.subarray(0, -2): all bytes but the last two (empty when there are fewer).
subarrayDropLast2(buffer) ==
    IF Len(buffer) >= 2 THEN SubSeq(buffer, 1, Len(buffer) - 2) ELSE <<>>

\* The two bytes of a 16-bit value, low byte first.
bytesUInt16LE(value) == <<value % 256, value \div 256>>

(***************************************************************************)
(* crc16 (lines 78-95).  Each loop is a recursive operator; the value a    *)
(* loop variable is assigned is bound with "c \in {...}", so that it is    *)
(* computed once, as the assignment does, before the next iteration.       *)
(***************************************************************************)
\* The inner loop: for (j = 0; j < 8; j++).
RECURSIVE crcShift(_, _)
crcShift(crc, j) ==
    IF j >= 8 THEN crc
    ELSE CHOOSE r \in
           { crcShift(IF BitAnd(c, 1) # 0
                      THEN BitXor(ShiftRight1(c), 40961)
                      ELSE ShiftRight1(c), j + 1) : c \in {crc} } : TRUE

\* The outer loop: for (i = 0; i < buffer.length; i++).
RECURSIVE crcLoop(_, _, _)
crcLoop(buffer, i, crc) ==
    IF i >= Len(buffer) THEN crc
    ELSE CHOOSE r \in
           { crcLoop(buffer, i + 1, c) :
               c \in {crcShift(BitXor(crc, buffer[i + 1]), 0)} } : TRUE

\* Mutant of crc16: the accumulator starts at 0 instead of 0xFFFF.
crc16ZeroInit(buffer) == CHOOSE r \in {crcLoop(b, 0, 0) : b \in {buffer}} : TRUE

crc16(buffer) == CHOOSE r \in {crcLoop(b, 0, 65535) : b \in {buffer}} : TRUE

(***************************************************************************)
(* Node's Buffer.alloc and write methods.  A write of a value outside the  *)
(* field's range throws; FitsUInt8 and FitsUInt16 are those checks.        *)
(***************************************************************************)
alloc(size) == [i \in 1..size |-> 0]

FitsUInt8(value) == value >= 0 /\ value <= 255

FitsUInt16(value) == value >= 0 /\ value <= 65535

writeUInt8(buffer, value, offset) == [buffer EXCEPT ![offset + 1] = value]

writeUInt16BE(buffer, value, offset) ==
    [buffer EXCEPT ![offset + 1] = value \div 256, ![offset + 2] = value % 256]

writeUInt16LE(buffer, value, offset) ==
    [buffer EXCEPT ![offset + 1] = value % 256, ![offset + 2] = value \div 256]

(***************************************************************************)
(* requestHoldingRegisters (lines 22-34), as the outcome of a call on a    *)
(* codec whose unit address is ua.                                         *)
(***************************************************************************)
codeLength == 6

\* Mutant of requestHoldingRegistersResult: the register count is last - first.
requestHoldingRegistersOffByOne(ua, first, last) ==
    LET length == last - first
        b0 == alloc(codeLength + 2)
    IN  IF ~FitsUInt8(ua) THEN RangeError
        ELSE IF ~FitsUInt16(first) THEN RangeError
        ELSE IF ~FitsUInt16(length) THEN RangeError
        ELSE LET b1 == writeUInt8(b0, ua, 0)
                 b2 == writeUInt8(b1, 3, 1)
                 b3 == writeUInt16BE(b2, first, 2)
                 b4 == writeUInt16BE(b3, length, 4)
                 b5 == writeUInt16LE(b4, crc16(subarrayDropLast2(b4)), codeLength)
             IN  Outcome("frame", b5, "")

requestHoldingRegistersResult(ua, first, last) ==
    LET length == last - first + 1
        b0 == alloc(codeLength + 2)
    IN  IF ~FitsUInt8(ua) THEN RangeError
        ELSE IF ~FitsUInt16(first) THEN RangeError
        ELSE IF ~FitsUInt16(length) THEN RangeError
        ELSE LET b1 == writeUInt8(b0, ua, 0)
                 b2 == writeUInt8(b1, 3, 1)
                 b3 == writeUInt16BE(b2, first, 2)
                 b4 == writeUInt16BE(b3, length, 4)
                 b5 == writeUInt16LE(b4, crc16(subarrayDropLast2(b4)), codeLength)
             IN  Outcome("frame", b5, "")

(***************************************************************************)
(* validateResponse (lines 55-76).  The outcome is "void" when no check    *)
(* throws.                                                                 *)
(***************************************************************************)
modbusErrorMessages ==
    << "Unknown error", "Illegal function", "Illegal data address",
       "Illegal data value", "Slave device failure", "Acknowledge",
       "Slave device busy", "Memory Parity Error" >>

\* modbusErrorMessages[errorCode] || 'Unknown error' (line 70): the array is
\* indexed from 0, and an index past its end yields undefined.
\* Mutant of errorMessage: the table is indexed from 1.
errorMessageOneBased(errorCode) ==
    IF errorCode >= 1 /\ errorCode <= Len(modbusErrorMessages)
    THEN modbusErrorMessages[errorCode]
    ELSE "Unknown error"

errorMessage(errorCode) ==
    IF errorCode >= 0 /\ errorCode < Len(modbusErrorMessages)
    THEN modbusErrorMessages[errorCode + 1]
    ELSE "Unknown error"

\* Mutant of validateResponse: only the low byte of the checksum is compared.
validateResponseLowByte(ua, functionCode, resp) ==
    IF ~InRange16(resp, Len(resp) - 2) THEN RangeError
    ELSE IF readUInt8(resp, Len(resp) - 2) # crc16(subarrayDropLast2(resp)) % 256
    THEN Outcome("CrcMismatch", <<>>, "The CRC of the response is invalid.")
    ELSE IF ua # readUInt8(resp, 0)
    THEN Outcome("UnitAddressMismatch", <<ua, readUInt8(resp, 0)>>, "")
    ELSE LET code == readUInt8(resp, 1)
         IN  IF Len(resp) >= 5 /\ code = BitOr(128, functionCode)
             THEN LET errorCode == readUInt8(resp, 2)
                  IN  Outcome("ModbusException", <<errorCode>>, errorMessage(errorCode))
             ELSE IF code # functionCode
             THEN Outcome("FunctionCodeMismatch", <<functionCode, code>>, "")
             ELSE Outcome("void", <<>>, "")

\* Mutant of validateResponse: the function code is checked before the
\* exception flag.
validateResponseCodeFirst(ua, functionCode, resp) ==
    IF ~InRange16(resp, Len(resp) - 2) THEN RangeError
    ELSE IF readUInt16LE(resp, Len(resp) - 2) # crc16(subarrayDropLast2(resp))
    THEN Outcome("CrcMismatch", <<>>, "The CRC of the response is invalid.")
    ELSE IF ua # readUInt8(resp, 0)
    THEN Outcome("UnitAddressMismatch", <<ua, readUInt8(resp, 0)>>, "")
    ELSE LET code == readUInt8(resp, 1)
         IN  IF code # functionCode
             THEN Outcome("FunctionCodeMismatch", <<functionCode, code>>, "")
             ELSE IF Len(resp) >= 5 /\ code = BitOr(128, functionCode)
             THEN LET errorCode == readUInt8(resp, 2)
                  IN  Outcome("ModbusException", <<errorCode>>, errorMessage(errorCode))
             ELSE Outcome("void", <<>>, "")

\* Mutant of validateResponse: the unit address is not compared.
validateResponseAnyAddress(ua, functionCode, resp) ==
    IF ~InRange16(resp, Len(resp) - 2) THEN RangeError
    ELSE IF readUInt16LE(resp, Len(resp) - 2) # crc16(subarrayDropLast2(resp))
    THEN Outcome("CrcMismatch", <<>>, "The CRC of the response is invalid.")
    ELSE LET code == readUInt8(resp, 1)
         IN  IF Len(resp) >= 5 /\ code = BitOr(128, functionCode)
             THEN LET errorCode == readUInt8(resp, 2)
                  IN  Outcome("ModbusException", <<errorCode>>, errorMessage(errorCode))
             ELSE IF code # functionCode
             THEN Outcome("FunctionCodeMismatch", <<functionCode, code>>, "")
             ELSE Outcome("void", <<>>, "")

validateResponse(ua, functionCode, resp) ==
    IF ~InRange16(resp, Len(resp) - 2) THEN RangeError
    ELSE IF readUInt16LE(resp, Len(resp) - 2) # crc16(subarrayDropLast2(resp))
    THEN Outcome("CrcMismatch", <<>>, "The CRC of the response is invalid.")
    ELSE IF ua # readUInt8(resp, 0)
    THEN Outcome("UnitAddressMismatch", <<ua, readUInt8(resp, 0)>>, "")
    ELSE LET code == readUInt8(resp, 1)
         IN  IF Len(resp) >= 5 /\ code = BitOr(128, functionCode)
             THEN LET errorCode == readUInt8(resp, 2)
                  IN  Outcome("ModbusException", <<errorCode>>, errorMessage(errorCode))
             ELSE IF code # functionCode
             THEN Outcome("FunctionCodeMismatch", <<functionCode, code>>, "")
             ELSE Outcome("void", <<>>, "")

(***************************************************************************)
(* fetchHoldingRegisters (lines 41-53).                                    *)
(***************************************************************************)
\* The loop of lines 47-50: a read outside the buffer throws and the values
\* read so far are lost.
RECURSIVE fetchLoop(_, _, _, _)
fetchLoop(resp, length, i, contents) ==
    IF i >= length THEN Outcome("values", contents, "")
    ELSE IF ~InRange16(resp, i + 3) THEN RangeError
    ELSE fetchLoop(resp, length, i + 2, Append(contents, readUInt16BE(resp, i + 3)))

\* The offsets of the bytes the loop of lines 47-50 reads for a byte count.
RECURSIVE fetchLoopOffsets(_, _)
fetchLoopOffsets(length, i) ==
    IF i >= length THEN {}
    ELSE {i + 3, i + 4} \cup fetchLoopOffsets(length, i + 2)

fetchHoldingRegistersResult(ua, resp) ==
    LET checked == validateResponse(ua, 3, resp)
    IN  IF checked.kind # "void" THEN checked
        ELSE IF ~InRange8(resp, 2) THEN RangeError
        ELSE fetchLoop(resp, readUInt8(resp, 2), 0, <<>>)

(***************************************************************************)
(* The inputs the calls are given.                                         *)
(***************************************************************************)
\* Unit addresses a codec is constructed with (line 13): 8-bit values, the
\* range writeUInt8 accepts at line 27.
UnitAddresses == {0, 17, 255}

\* Register numbers given to requestHoldingRegisters: both ends of the 16-bit
\* range, and ranges of 1, 125, 126 and 65536 registers.
Registers == {0, 1, 124, 125, 126, 255, 256, 4660, 65534, 65535}

\* Function-code bytes of a response: 0x03, 0x83 and another code.
FunctionBytes == {3, 131, 4}

\* Byte-count bytes of a response, some larger than the data that follows.
CountBytes == 0..(MaxData + 2)

DataBytes == {18, 255}

SeqsUpTo(S, n) == UNION {[1..k -> S] : k \in 0..n}

\* What precedes the checksum in a response: nothing, a truncated header, or
\* address, function code, byte count and data.
Bodies ==
    {<<>>}
    \cup {<<a>> : a \in UnitAddresses}
    \cup {<<a, f>> : a \in UnitAddresses, f \in FunctionBytes}
    \cup {<<a, f, n>> \o d : a \in UnitAddresses, f \in FunctionBytes,
                             n \in CountBytes, d \in SeqsUpTo(DataBytes, MaxData)}

\* A body followed by its checksum, low byte first: the frame a device sends,
\* which is what the check of lines 56-57 accepts.
Seal(body) == body \o bytesUInt16LE(crc16(body))

\* Exception responses for every exception code.
ExceptionFrames == {Seal(<<a, 131, c>>) : a \in UnitAddresses, c \in 0..255}

\* The buffers given to fetchHoldingRegisters: with and without a checksum.
Responses == Bodies \cup {Seal(b) : b \in Bodies} \cup ExceptionFrames

(***************************************************************************)
(* Operations.                                                             *)
(***************************************************************************)
requestHoldingRegisters(first, last) ==
    /\ op' = "requestHoldingRegisters"
    /\ firstRegister' = first
    /\ lastRegister' = last
    /\ result' = requestHoldingRegistersResult(unitAddress, first, last)
    /\ UNCHANGED <<unitAddress, sent, response>>

\* The transport hands over the buffer it received.
receive(frame) ==
    /\ op' = "receive"
    /\ sent' = frame
    /\ response' = frame
    /\ result' = NoResult
    /\ UNCHANGED <<unitAddress, firstRegister, lastRegister>>

\* Mutant of fetchHoldingRegisters: the buffer is zeroed once it is decoded.
fetchHoldingRegistersConsuming ==
    /\ op \in {"receive", "fetchHoldingRegisters"}
    /\ op' = "fetchHoldingRegisters"
    /\ result' = fetchHoldingRegistersResult(unitAddress, response)
    /\ response' = alloc(Len(response))
    /\ UNCHANGED <<unitAddress, sent, firstRegister, lastRegister>>

fetchHoldingRegisters ==
    /\ op \in {"receive", "fetchHoldingRegisters"}
    /\ op' = "fetchHoldingRegisters"
    /\ result' = fetchHoldingRegistersResult(unitAddress, response)
    /\ UNCHANGED <<unitAddress, sent, response, firstRegister, lastRegister>>

(***************************************************************************)
(* SpecRequest: a constructed codec builds requests.                       *)
(***************************************************************************)
InitRequest ==
    /\ unitAddress \in UnitAddresses
    /\ sent = <<>>
    /\ response = <<>>
    /\ op = "new"
    /\ firstRegister = 0
    /\ lastRegister = 0
    /\ result = NoResult

NextRequest == \E a \in Registers, b \in Registers : requestHoldingRegisters(a, b)

SpecRequest == InitRequest /\ [][NextRequest]_vars

(***************************************************************************)
(* SpecFetch: a constructed codec decodes the buffer the transport holds.  *)
(***************************************************************************)
InitFetch ==
    /\ unitAddress \in UnitAddresses
    /\ sent \in Responses
    /\ response = sent
    /\ op = "receive"
    /\ firstRegister = 0
    /\ lastRegister = 0
    /\ result = NoResult

NextFetch == fetchHoldingRegisters

SpecFetch == InitFetch /\ [][NextFetch]_vars

(***************************************************************************)
(* Spec: a constructed codec in use.  Requests are built, the transport    *)
(* hands over responses, and responses are decoded, in any order.          *)
(***************************************************************************)
SessionRegisters == {0, 1, 65535}

SessionResponses ==
    {<<>>}
    \cup {<<a, f, 2, 18, 255>> : a \in UnitAddresses, f \in FunctionBytes}
    \cup {Seal(<<a, f, 2, 18, 255>>) : a \in UnitAddresses, f \in FunctionBytes}

Init ==
    /\ unitAddress \in UnitAddresses
    /\ sent = <<>>
    /\ response = <<>>
    /\ op = "new"
    /\ firstRegister = 0
    /\ lastRegister = 0
    /\ result = NoResult

Next ==
    \/ \E a \in SessionRegisters, b \in SessionRegisters : requestHoldingRegisters(a, b)
    \/ \E frame \in SessionResponses : receive(frame)
    \/ fetchHoldingRegisters

Spec == Init /\ [][Next]_vars

(***************************************************************************)
(* SpecCorrupt: the frame a device sent arrives with one byte changed.     *)
(***************************************************************************)
\* The bodies of the frames that get corrupted.
CorruptBodies == SeqsUpTo({3, 17}, MaxCorruptBody)

\* The transport delivers the frame with the byte at offset pos replaced.
corrupt(pos, value) ==
    /\ op = "receive"
    /\ response = sent
    /\ InRange8(response, pos)
    /\ value # readUInt8(response, pos)
    /\ response' = writeUInt8(response, value, pos)
    /\ UNCHANGED <<unitAddress, sent, op, firstRegister, lastRegister, result>>

InitCorrupt ==
    /\ unitAddress \in UnitAddresses
    /\ sent \in {Seal(b) : b \in CorruptBodies}
    /\ response = sent
    /\ op = "receive"
    /\ firstRegister = 0
    /\ lastRegister = 0
    /\ result = NoResult

NextCorrupt ==
    \/ \E pos \in 0..(MaxCorruptBody + 1), value \in 0..255 : corrupt(pos, value)
    \/ fetchHoldingRegisters

SpecCorrupt == InitCorrupt /\ [][NextCorrupt]_vars

(***************************************************************************)
(* SpecCrc: crc16 applied to a byte sequence.                              *)
(***************************************************************************)
CrcBytes == {0, 1, 128, 255}

CrcInputs ==
    SeqsUpTo(CrcBytes, MaxCrcLen)
    \cup {<<b>> : b \in 0..255}
    \cup {<<1, 3, 0, 0, 0, 10>>}

applyCrc16 ==
    /\ op = "receive"
    /\ op' = "crc16"
    /\ result' = Outcome("crc", <<crc16(response)>>, "")
    /\ UNCHANGED <<unitAddress, sent, response, firstRegister, lastRegister>>

InitCrc ==
    /\ unitAddress \in UnitAddresses
    /\ sent \in CrcInputs
    /\ response = sent
    /\ op = "receive"
    /\ firstRegister = 0
    /\ lastRegister = 0
    /\ result = NoResult

NextCrc == applyCrc16

SpecCrc == InitCrc /\ [][NextCrc]_vars

(***************************************************************************)
(* Properties.                                                             *)
(***************************************************************************)
Requested == op = "requestHoldingRegisters"

Fetched == op = "fetchHoldingRegisters"

IsByte(v) == v \in 0..255

\* The trailing two bytes of a frame are the checksum of the bytes before them,
\* low byte first.
ChecksumOk(frame) ==
    /\ Len(frame) >= 2
    /\ frame[Len(frame) - 1] + 256 * frame[Len(frame)]
         = crc16(SubSeq(frame, 1, Len(frame) - 2))

\* The frame the claim describes for a request of registers a..b.
IsRequestFrame(frame, ua, a, b) ==
    /\ Len(frame) = 8
    /\ \A i \in 1..8 : IsByte(frame[i])
    /\ frame[1] = ua
    /\ frame[2] = 3
    /\ frame[3] * 256 + frame[4] = a
    /\ frame[5] * 256 + frame[6] = b - a + 1
    /\ frame[7] + 256 * frame[8] = crc16(SubSeq(frame, 1, 6))

\* C1 as stated: for every firstRegister a and lastRegister b in 0..65535 with
\* b >= a, requestHoldingRegisters(a, b) returns without error the 8-byte frame
\* [unit address, 0x03, a big-endian, b-a+1 big-endian, crc16 low byte first].
C1_AllRangesEncode ==
    (/\ Requested
     /\ firstRegister \in 0..65535
     /\ lastRegister \in 0..65535
     /\ lastRegister >= firstRegister)
    => /\ result.kind = "frame"
       /\ IsRequestFrame(result.payload, unitAddress, firstRegister, lastRegister)

\* C1 as amended: the frame is returned whenever the register count b-a+1 fits
\* in 16 bits; the one range of 65536 registers (a = 0, b = 65535) makes the
\* call fail with a range error.
C1_RangesThatFitEncode ==
    (/\ Requested
     /\ firstRegister \in 0..65535
     /\ lastRegister \in 0..65535
     /\ lastRegister >= firstRegister)
    => IF lastRegister - firstRegister + 1 <= 65535
       THEN /\ result.kind = "frame"
            /\ IsRequestFrame(result.payload, unitAddress, firstRegister, lastRegister)
       ELSE result.kind = "RangeError"

\* A request for 126 registers, above the protocol's cap of 125, was encoded.
C1_Witness ==
    /\ Requested
    /\ firstRegister = 1
    /\ lastRegister = 126
    /\ result.kind = "frame"
    /\ result.payload[6] = 126

\* The response a device sends for register values vals: unit address, 0x03,
\* the byte count 2N, each value big-endian, and the checksum low byte first.
RECURSIVE RegisterBytes(_)
RegisterBytes(vals) ==
    IF vals = <<>> THEN <<>>
    ELSE <<Head(vals) \div 256, Head(vals) % 256>> \o RegisterBytes(Tail(vals))

ResponseBody(ua, vals) == <<ua, 3, 2 * Len(vals)>> \o RegisterBytes(vals)

RegisterValues == {hi * 256 + lo : hi \in DataBytes, lo \in DataBytes}

RegisterSeqs == SeqsUpTo(RegisterValues, MaxData \div 2)

\* C2: a response frame [unit address, 0x03, 2N, N register values big-endian,
\* crc16 low byte first] given to fetchHoldingRegisters of a codec with the same
\* unit address returns exactly those N values in the same order.
C2_RoundTrip ==
    Fetched =>
      \A vals \in RegisterSeqs :
        LET body == ResponseBody(unitAddress, vals)
        IN  (/\ SubSeq(response, 1, Len(response) - 2) = body
             /\ response = Seal(body))
            => result = Outcome("values", vals, "")

\* Two different register values came back in wire order.
C2_Witness ==
    /\ Fetched
    /\ response = Seal(ResponseBody(unitAddress, <<4863, 65298>>))
    /\ result.kind = "values"
    /\ result.payload = <<4863, 65298>>

\* Frames of equal length that differ at exactly one offset.
OneByteChanged(f, g) ==
    /\ Len(f) = Len(g)
    /\ Cardinality({i \in 1..Len(f) : f[i] # g[i]}) = 1

\* C3: changing any single byte of a valid response frame (header, payload or
\* checksum field) to a different value makes fetchHoldingRegisters fail with
\* the CRC-mismatch error.
C3_SingleByteChangeDetected ==
    (/\ Fetched
     /\ OneByteChanged(sent, response)
     /\ ChecksumOk(sent))
    => result.kind = "CrcMismatch"

\* A frame whose checksum high byte was changed has been rejected.
C3_Witness ==
    /\ Fetched
    /\ Len(sent) = 5
    /\ ChecksumOk(sent)
    /\ OneByteChanged(sent, response)
    /\ response[5] # sent[5]
    /\ result.kind = "CrcMismatch"

\* C4: the error reported is that of the first failing check in the order
\* checksum, unit address, exception, function code.
C4_ValidationOrder ==
    (Fetched /\ Len(response) >= 2) =>
      LET crcOk == ChecksumOk(response)
          addressOk == response[1] = unitAddress
          exception == Len(response) >= 5 /\ response[2] = 131
      IN  /\ ~crcOk => result.kind = "CrcMismatch"
          /\ (crcOk /\ ~addressOk) => result.kind = "UnitAddressMismatch"
          /\ (crcOk /\ addressOk /\ exception) => result.kind = "ModbusException"
          /\ result.kind = "FunctionCodeMismatch"
               <=> (crcOk /\ addressOk /\ ~exception /\ response[2] # 3)

\* An exception response from another unit, with a bad checksum, was reported
\* as a CRC mismatch.
C4_Witness ==
    /\ Fetched
    /\ Len(response) >= 5
    /\ ~ChecksumOk(response)
    /\ response[1] # unitAddress
    /\ response[2] = 131
    /\ result.kind = "CrcMismatch"

\* The message the claim gives for an exception code.
ExceptionText(code) ==
    CASE code = 1 -> "Illegal function"
      [] code = 2 -> "Illegal data address"
      [] code = 3 -> "Illegal data value"
      [] code = 4 -> "Slave device failure"
      [] code = 5 -> "Acknowledge"
      [] code = 6 -> "Slave device busy"
      [] code = 7 -> "Memory Parity Error"
      [] OTHER -> "Unknown error"

\* C5: a response of length >= 5 with a valid checksum, a matching unit address
\* and byte 1 = 0x83 fails with a Modbus exception whose code is byte 2 and
\* whose message is the table entry for codes 0..7 and "Unknown error" for
\* codes 8..255.
C5_ExceptionDecoded ==
    (/\ Fetched
     /\ Len(response) >= 5
     /\ ChecksumOk(response)
     /\ response[1] = unitAddress
     /\ response[2] = 131)
    => /\ result.kind = "ModbusException"
       /\ result.payload = <<response[3]>>
       /\ result.message = ExceptionText(response[3])

\* Exception code 7, the last entry of the table, was decoded.
C5_Witness ==
    /\ Fetched
    /\ Len(response) = 5
    /\ response[3] = 7
    /\ result.kind = "ModbusException"
    /\ result.message = "Memory Parity Error"

\* C6: a response whose checksum is valid and whose byte 0 differs from the
\* codec's unit address fails with the unit-address-mismatch error carrying the
\* expected and the actual address, whatever its function code and payload.
C6_UnitAddressMismatch ==
    (/\ Fetched
     /\ ChecksumOk(response)
     /\ response[1] # unitAddress)
    => result = Outcome("UnitAddressMismatch", <<unitAddress, response[1]>>, "")

\* An otherwise well-formed 0x03 response from another unit was rejected.
C6_Witness ==
    /\ Fetched
    /\ Len(response) = 7
    /\ ChecksumOk(response)
    /\ response[1] # unitAddress
    /\ response[2] = 3
    /\ response[3] = 2
    /\ result.kind = "UnitAddressMismatch"

(***************************************************************************)
(* The reference Modbus CRC-16, on the set of positions of the bits that   *)
(* are 1 in the 16-bit accumulator: XOR is the symmetric difference, and a *)
(* right shift lowers every position by one and drops position 0.          *)
(***************************************************************************)
BitsOf(n) == {k \in 0..15 : (n \div (2 ^ k)) % 2 = 1}

SymDiff(A, B) == (A \ B) \cup (B \ A)

\* 0xA001 has bits 15, 13 and 0 set.
RefPolynomial == {0, 13, 15}

RefShift(acc) ==
    LET shifted == {k - 1 : k \in acc \ {0}}
    IN  IF 0 \in acc THEN SymDiff(shifted, RefPolynomial) ELSE shifted

RECURSIVE RefShifts(_, _)
RefShifts(acc, n) ==
    IF n = 0 THEN acc
    ELSE CHOOSE r \in {RefShifts(a, n - 1) : a \in {RefShift(acc)}} : TRUE

RECURSIVE RefCrc(_, _)
RefCrc(bytes, n) ==
    IF n = 0 THEN 0..15
    ELSE CHOOSE r \in
           { RefShifts(SymDiff(a, BitsOf(bytes[n])), 8) :
               a \in {RefCrc(bytes, n - 1)} } : TRUE

\* C7: crc16 equals the reference Modbus CRC-16 (accumulator 0xFFFF, each byte
\* XORed into the low byte, then 8 right shifts, each XORed with 0xA001 when
\* the bit shifted out was 1); the result is in 0..65535, it is 0xFFFF for the
\* empty sequence and 0xCDC5 for [0x01, 0x03, 0x00, 0x00, 0x00, 0x0A].
C7_CrcIsModbusCrc ==
    op = "crc16" =>
      LET crc == result.payload[1]
      IN  /\ crc \in 0..65535
          /\ BitsOf(crc) = RefCrc(response, Len(response))
          /\ response = <<>> => crc = 65535
          /\ response = <<1, 3, 0, 0, 0, 10>> => crc = 52677

\* crc16 was applied to the test vector and gave 0xCDC5.
C7_Witness ==
    /\ op = "crc16"
    /\ response = <<1, 3, 0, 0, 0, 10>>
    /\ result.payload = <<52677>>

\* C8: for every buffer, of any length and with any byte-count field,
\* fetchHoldingRegisters either returns a sequence of unsigned 16-bit values or
\* fails with one of the four error kinds; it never fails in another way.
C8_OnlyFourErrorKinds ==
    Fetched =>
      \/ /\ result.kind = "values"
         /\ \A k \in 1..Len(result.payload) : result.payload[k] \in 0..65535
      \/ result.kind \in {"CrcMismatch", "UnitAddressMismatch",
                          "ModbusException", "FunctionCodeMismatch"}

\* C9: no call changes the codec's unit address; fetchHoldingRegisters leaves
\* the response buffer as it was; a call's result is the one a codec with that
\* unit address gives for the call's arguments, and repeating a call with the
\* same arguments gives the same result again.
C9_Step ==
    /\ unitAddress' = unitAddress
    /\ op' = "fetchHoldingRegisters" =>
         /\ response' = response
         /\ result' = fetchHoldingRegistersResult(unitAddress, response)
    /\ op' = "requestHoldingRegisters" =>
         /\ response' = response
         /\ result' = requestHoldingRegistersResult(unitAddress, firstRegister',
                                                    lastRegister')
    /\ (/\ op' = op
        /\ op \in {"requestHoldingRegisters", "fetchHoldingRegisters"}
        /\ firstRegister' = firstRegister
        /\ lastRegister' = lastRegister
        /\ response' = response)
       => result' = result

\* C9: the codec is stateless: every step of every session satisfies C9_Step.
C9_Stateless == [][C9_Step]_vars

\* After a request and a failed decode, a response was decoded successfully.
C9_Witness ==
    /\ Fetched
    /\ firstRegister = 1
    /\ lastRegister = 65535
    /\ result.kind = "values"
    /\ result.payload = <<4863>>

\* C10: for a response that passes the four checks, with byte 2 = byteCount,
\* fetchHoldingRegisters returns exactly byteCount / 2 values, the k-th being
\* the big-endian value of bytes 3+2k and 4+2k, and every byte it reads as
\* register data lies at an offset in 3 .. 3+byteCount-1.
C10_DecodesDeclaredPayload ==
    (/\ Fetched
     /\ ChecksumOk(response)
     /\ response[1] = unitAddress
     /\ response[2] = 3)
    => /\ Len(response) >= 3
       /\ LET byteCount == response[3]
          IN  /\ result.kind = "values"
              /\ Len(result.payload) = byteCount \div 2
              /\ \A k \in 0..((byteCount \div 2) - 1) :
                   result.payload[k + 1] = response[4 + 2 * k] * 256 + response[5 + 2 * k]
              /\ fetchLoopOffsets(byteCount, 0) \subseteq 3..(3 + byteCount - 1)

====
